---- MODULE Spec2Model ----
(***************************************************************************)
(* Model of yil-reviewer (src/main.rs): a batch statistics extractor that  *)
(* replays every mahjong log of a directory once per seat through a        *)
(* simulated PlayerState and accumulates per-player counters (PlayerInfo)  *)
(* and per-player yaku tallies, then writes two CSV tables.                *)
(*                                                                         *)
(* Strings (player names, tenhou yaku strings) are sequences of one-       *)
(* character strings so that split_once / starts_with / contains are       *)
(* computed rather than assumed.                                            *)
(***************************************************************************)
EXTENDS Integers, Sequences, FiniteSets, TLC

VARIABLES
    overflow_checks,      \* the build traps integer overflow (debug profile) or wraps (release)
    dir,                  \* the entries of ./downloads, in the order read_dir yields them
    entry_idx,            \* position of the loop over dir
    processed,            \* the logs whose four replays are complete, in order
    pc,                   \* position of main
    log,                  \* the log being processed (or NoLog)
    duration,             \* Option<u64> of the current log
    kyoku_idx,            \* position of the yaku loop in log.kyokus
    player_id,            \* seat being replayed
    ev_idx,               \* position of the replay in events
    state,                \* PlayerState of the current (log, seat)
    danger_before_event,  \* tile weights captured before state.update
    players_info,         \* HashMap<String, PlayerInfo>
    yaku_info,            \* HashMap<String, HashMap<String, u32>>
    name_order,           \* row order of the player info table
    info_csv,             \* ./info.csv: its data rows, once written
    yaku_csv              \* ./yaku.csv: its yaku header and data rows, once written

vars == <<overflow_checks, dir, entry_idx, processed, pc, log, duration, kyoku_idx, player_id,
          ev_idx, state, danger_before_event, players_info, yaku_info, name_order, info_csv,
          yaku_csv>>

----------------------------------------------------------------------------
(* Bounds of the model *)

\* most directory entries of one run
MaxLogs == 2

(* Program constants *)

\* report threshold on kyoku_count
ReportThreshold == 100
BaimanPoints == 16000
SanbaimanPoints == 24000
YakumanPoints == 32000
DamaManganPoints == 8000
HonbaPoints == 300
KyotakuPoints == 1000
\* i32::MAX
MaxI32 == 2147483647

Seats == 0..3

NoDuration == [some |-> FALSE, secs |-> 0]
SomeDuration(n) == [some |-> TRUE, secs |-> n]
NotWritten == [written |-> FALSE, header |-> <<>>, rows |-> <<>>]
Written(header, rows) == [written |-> TRUE, header |-> header, rows |-> rows]

----------------------------------------------------------------------------
(* Strings as sequences of characters *)

Str_ashlen == <<"a", "s", "h", "l", "e", "n">>
Str_UraDora == <<"U", "r", "a", " ", "D", "o", "r", "a">>

\* str::contains: sub occurs in s as a contiguous substring
Contains(s, sub) ==
    \E i \in 1..(Len(s) - Len(sub) + 1) : SubSeq(s, i, i + Len(sub) - 1) = sub

\* str::split_once('('): <<>> for None, else <<before, after>> at the first '('
SplitOnceParen(s) ==
    IF \A i \in 1..Len(s) : s[i] # "("
        THEN <<>>
        ELSE LET i == CHOOSE k \in 1..Len(s) :
                          s[k] = "(" /\ \A j \in 1..(k - 1) : s[j] # "("
             IN  <<SubSeq(s, 1, i - 1), SubSeq(s, i + 1, Len(s))>>

\* faulty variant: a '0' anywhere in the text
StartsWithZero_AnyZero(s) == \E i \in 1..Len(s) : s[i] = "0"

\* str::starts_with('0')
StartsWithZero(s) == Len(s) > 0 /\ s[1] = "0"

----------------------------------------------------------------------------
(* Integer arithmetic of the program.  A u32 is kept as the i32 that has    *)
(* the same 32 bits (v for v < 2^31, v - 2^32 above), the widest integer the *)
(* checker computes with: a negative number here is a u32 of 2^31 or more.   *)

\* u32 += in a release build: addition modulo 2^32 on the 32-bit patterns
Add32(a, b) ==
    IF a >= 0 /\ b >= 0
        THEN IF a > MaxI32 - b THEN ((a - MaxI32) + (b - MaxI32)) - 2 ELSE a + b
    ELSE IF a < 0 /\ b < 0
        THEN IF a < (-MaxI32 - 1) - b THEN ((a + MaxI32) + (b + MaxI32)) + 2 ELSE a + b
    ELSE a + b

\* `x as u32` of an i32, i8 or small u64: the same 32 bits, so a negative x
\* is the u32 x + 2^32
AsU32(x) == x

\* a < b and a <= b as u32
ULt(a, b) == IF (a >= 0) = (b >= 0) THEN a < b ELSE a >= 0
ULe(a, b) == a = b \/ ULt(a, b)

\* i32 division, truncating toward zero
TruncDiv(a, b) == IF a >= 0 THEN a \div b ELSE -((-a) \div b)

----------------------------------------------------------------------------
(* PlayerInfo *)

PlayerInfoFields ==
    {"kyoku_count", "agari_count", "dealin_count", "riichi_count",
     "riichi_agari_count", "dama_agari_count", "open_agari_count", "open_count",
     "total_haipai_shanten", "total_agari_score", "total_dealin_score", "ura_count",
     "yakuman_count", "sanbaiman_count", "baiman_count", "yakuman_chance",
     "ippatsu_dealin_count", "ippatsu_brazen_count", "total_riichi_wait",
     "total_agari_waits", "dama_dealin_count", "dama_mangan_dealin_count",
     "action_count", "seconds_played"}

\* #[derive(Default)]: every counter starts at 0
DefaultPlayerInfo == [f \in PlayerInfoFields |-> 0]

\* info.<field> += n
Bump(info, field, n) == [info EXCEPT ![field] = Add32(@, n)]

----------------------------------------------------------------------------
(* Events (riichi::mjai::Event) as the converter yields them.  Every event   *)
(* carries `view`: what the rules engine reports for each seat once the      *)
(* event has been applied (shanten, waits, valuation, available action).     *)

\* one completing tile of a seat: the copies of it still unseen (4 - tiles_seen),
\* whether calculate_agari gives Ok(Some(agari)) for it, and agari's ron points
Wait(unseen, valued, ron) == [unseen |-> unseen, valued |-> valued, ron |-> ron]

SeatView(shanten, rt_shanten, waits, can_act, ura_hits) ==
    [shanten |-> shanten, rt_shanten |-> rt_shanten, waits |-> waits,
     can_act |-> can_act, ura_hits |-> ura_hits]

QuietView == [s \in Seats |-> SeatView(3, 3, <<>>, FALSE, 0)]

NoDeltas == [s \in Seats |-> 0]

Ev(type, actor, target, pai, view) ==
    [type |-> type, actor |-> actor, target |-> target, pai |-> pai, oya |-> 0,
     honba |-> 0, kyotaku |-> 0, has_deltas |-> FALSE, deltas |-> NoDeltas,
     has_ura |-> FALSE,
     accepted |-> TRUE, view |-> view]

StartKyoku(oya, honba, kyotaku, view) ==
    [Ev("start_kyoku", 0, 0, 0, view) EXCEPT !.oya = oya, !.honba = honba, !.kyotaku = kyotaku]
Tsumo(actor, view) == Ev("tsumo", actor, actor, 0, view)
Dahai(actor, pai, view) == Ev("dahai", actor, actor, pai, view)
Reach(actor, view) == Ev("reach", actor, actor, 0, view)
ReachAccepted(actor, view) == Ev("reach_accepted", actor, actor, 0, view)
Pon(actor, target, view) == Ev("pon", actor, target, 0, view)
\* deltas: Some([i32; 4]); a tsumo win has target = actor
Hora(actor, target, deltas, has_ura, view) ==
    [Ev("hora", actor, target, 0, view) EXCEPT
        !.has_deltas = TRUE, !.deltas = deltas, !.has_ura = has_ura]
\* deltas: None
HoraNoDeltas(actor, target, view) == Ev("hora", actor, target, 0, view)
Ryukyoku(view) == Ev("ryukyoku", 0, 0, 0, view)
EndKyoku(view) == Ev("end_kyoku", 0, 0, 0, view)
\* an event the engine rejects as inconsistent with its state
Rejected(e) == [e EXCEPT !.accepted = FALSE]

\* Tile::deaka: the red five (tile 34) is the plain five (tile 4)
Tile5m == 4
Tile5mr == 34
Deaka(pai) == IF pai = Tile5mr THEN Tile5m ELSE pai

----------------------------------------------------------------------------
(* PlayerState (riichi::state::PlayerState): the rules engine, reduced to    *)
(* the fields and queries main reads.  Per-seat arrays are indexed by the    *)
(* seat RELATIVE to the state's own seat (0 = self).                         *)

\* PlayerState::rel
Rel(pid, seat) == (seat + 4 - pid) % 4

KawaItem(pai, is_riichi) == [some |-> TRUE, pai |-> pai, is_riichi |-> is_riichi]
\* the None padding the engine pushes for a seat whose turn a call skipped
KawaNone == [some |-> FALSE, pai |-> 0, is_riichi |-> FALSE]

\* PlayerState::new(player_id)
NewState(pid) ==
    [player_id |-> pid, oya |-> 0, honba |-> 0, kyotaku |-> 0, is_menzen |-> TRUE,
     riichi_declared |-> [r \in Seats |-> FALSE],
     riichi_accepted |-> [r \in Seats |-> FALSE],
     kawa |-> [r \in Seats |-> <<>>],
     fuuro_overview |-> [r \in Seats |-> 0],
     genbutsu |-> [r \in Seats |-> {}],
     shanten |-> 0, rt_shanten |-> 0, waits |-> <<>>, can_act |-> FALSE, ura_hits |-> 0,
     n_events |-> 0]

NoState == NewState(0)

\* seats whose turn is skipped when `actor` calls the discard of `target`
SkippedSeats(actor, target) ==
    {s \in Seats : (s - target) % 4 > 0 /\ (s - target) % 4 < (actor - target) % 4}

\* the part of PlayerState::update that depends on the event kind
UpdateFields(s, e) ==
    LET a == Rel(s.player_id, e.actor) IN
    CASE e.type = "start_kyoku" ->
            [s EXCEPT !.oya = Rel(s.player_id, e.oya), !.honba = e.honba,
                      !.kyotaku = e.kyotaku, !.is_menzen = TRUE,
                      !.riichi_declared = [r \in Seats |-> FALSE],
                      !.riichi_accepted = [r \in Seats |-> FALSE],
                      !.kawa = [r \in Seats |-> <<>>],
                      !.fuuro_overview = [r \in Seats |-> 0],
                      !.genbutsu = [r \in Seats |-> {}]]
      [] e.type = "reach" -> [s EXCEPT !.riichi_declared[a] = TRUE]
      [] e.type = "dahai" ->
            [s EXCEPT !.kawa[a] = Append(@, KawaItem(e.pai,
                                     s.riichi_declared[a] /\ ~s.riichi_accepted[a])),
                      !.genbutsu = [r \in Seats |->
                                      IF r = a \/ s.riichi_declared[r]
                                          THEN s.genbutsu[r] \cup {Deaka(e.pai)}
                                          ELSE s.genbutsu[r]]]
      [] e.type = "reach_accepted" ->
            [s EXCEPT !.riichi_accepted[a] = TRUE, !.kyotaku = @ + 1]
      [] e.type = "pon" ->
            [s EXCEPT !.fuuro_overview[a] = @ + 1,
                      !.is_menzen = IF a = 0 THEN FALSE ELSE @,
                      !.kawa = [r \in Seats |->
                                  IF \E q \in SkippedSeats(e.actor, e.target) :
                                         Rel(s.player_id, q) = r
                                      THEN Append(s.kawa[r], KawaNone)
                                      ELSE s.kawa[r]]]
      [] OTHER -> s

\* PlayerState::update on an event the engine accepts
StateUpdate(s, e) ==
    LET v == e.view[s.player_id] IN
    [UpdateFields(s, e) EXCEPT
        !.shanten = v.shanten, !.rt_shanten = v.rt_shanten, !.waits = v.waits,
        !.can_act = v.can_act, !.ura_hits = v.ura_hits, !.n_events = @ + 1]

\* PlayerState::is_oya
IsOya(s) == s.oya = 0
\* PlayerState::self_riichi_declared / self_riichi_accepted
SelfRiichiDeclared(s) == s.riichi_declared[0]
SelfRiichiAccepted(s) == s.riichi_accepted[0]

\* the tiles of the model
Tiles == {0, Tile5m}
ZeroDanger == [r \in Seats |-> [t \in Tiles |-> 0]]

\* PlayerState::calculate_danger().map(|d| d.tile_weights): a tile that is
\* genbutsu against a seat weighs 0 for it, any other tile weighs more
CalculateDanger(s) ==
    [r \in Seats |-> [t \in Tiles |-> IF t \in s.genbutsu[r] THEN 0 ELSE 1]]

\* kawa.last().is_some_and(|item| item.as_ref().is_some_and(|i| i.sutehai.is_riichi))
LastIsRiichi(kawa) ==
    Len(kawa) > 0 /\ kawa[Len(kawa)].some /\ kawa[Len(kawa)].is_riichi

\* sum over the completing tiles of 4 - tiles_seen[tile]
RECURSIVE UnseenWaits(_)
UnseenWaits(waits) ==
    IF waits = <<>> THEN 0 ELSE Head(waits).unseen + UnseenWaits(Tail(waits))

----------------------------------------------------------------------------
(* The per-event accumulation rules of main (lines 153-280).  `info` is the  *)
(* PlayerInfo of the replayed seat's name, `s` the state AFTER state.update. *)

\* faulty variant: counted whether or not the log has a duration
CountAction_Always(info, s, dur) == Bump(info, "action_count", IF s.can_act THEN 1 ELSE 0)

\* line 153-155
CountAction(info, s, dur) ==
    IF dur.some THEN Bump(info, "action_count", IF s.can_act THEN 1 ELSE 0) ELSE info

\* Event::StartKyoku
OnStartKyoku(info, s) ==
    Bump(Bump(info, "kyoku_count", 1), "total_haipai_shanten", AsU32(s.shanten))

\* Event::ReachAccepted if actor == player_id
OnReachAccepted(info, s) ==
    Bump(Bump(info, "riichi_count", 1), "total_riichi_wait", UnseenWaits(s.waits))

\* faulty variant: counted also when the seat is in accepted riichi
BrazenAgainst_InRiichi(s, danger, pai, r) ==
    LastIsRiichi(s.kawa[r]) /\ danger[r][Deaka(pai)] > 0

\* one opponent of the Dahai loop (state.kawa zipped with the danger, skip(1))
BrazenAgainst(s, danger, pai, r) ==
    LastIsRiichi(s.kawa[r]) /\ ~SelfRiichiAccepted(s) /\ danger[r][Deaka(pai)] > 0

\* Event::Dahai if actor == player_id
OnDahai(info, s, danger, pai) ==
    Bump(info, "ippatsu_brazen_count",
         Cardinality({r \in 1..3 : BrazenAgainst(s, danger, pai, r)}))

\* faulty variant: the dealer's delta is not scaled
NormalizedSelfDelta_Unscaled(s, deltas) ==
    deltas[s.player_id] - s.honba * HonbaPoints - s.kyotaku * KyotakuPoints

\* normalized_self_delta
NormalizedSelfDelta(s, deltas) ==
    LET d == deltas[s.player_id] - s.honba * HonbaPoints - s.kyotaku * KyotakuPoints
    IN  IF IsOya(s) THEN TruncDiv(d * 2, 3) ELSE d

\* faulty variant: an open win counted in open_count
AgariKind_OpenCount(s) ==
    IF s.is_menzen
        THEN IF SelfRiichiDeclared(s) THEN "riichi_agari_count" ELSE "dama_agari_count"
        ELSE "open_count"

\* the win kind of the winner branch: exactly one of the three counters
AgariKind(s) ==
    IF s.is_menzen
        THEN IF SelfRiichiDeclared(s) THEN "riichi_agari_count" ELSE "dama_agari_count"
        ELSE "open_agari_count"

\* faulty variant: the tier checks as exclusive bands
TierCounts_Exclusive(info, norm) ==
    IF norm >= YakumanPoints THEN Bump(info, "yakuman_count", 1)
    ELSE IF norm >= SanbaimanPoints THEN Bump(info, "sanbaiman_count", 1)
    ELSE IF norm >= BaimanPoints THEN Bump(info, "baiman_count", 1)
    ELSE info

\* the three tier checks of the winner branch
TierCounts(info, norm) ==
    LET a == IF norm >= YakumanPoints THEN Bump(info, "yakuman_count", 1) ELSE info
        b == IF norm >= SanbaimanPoints THEN Bump(a, "sanbaiman_count", 1) ELSE a
    IN  IF norm >= BaimanPoints THEN Bump(b, "baiman_count", 1) ELSE b

\* Event::Hora, actor == player_id
OnHoraWinner(info, s, e) ==
    LET i1 == Bump(info, "agari_count", 1)
        i2 == Bump(i1, "total_agari_score", AsU32(e.deltas[s.player_id]))
        i3 == Bump(i2, AgariKind(s), 1)
        i4 == IF e.has_ura THEN Bump(i3, "ura_count", s.ura_hits) ELSE i3
        i5 == TierCounts(i4, NormalizedSelfDelta(s, e.deltas))
    IN  Bump(i5, "total_agari_waits", 1 + UnseenWaits(s.waits))

\* is_ippatsu of the target branch: state.kawa[*actor as usize]
WinnerKawa(s, actor) == s.kawa[actor]

\* faulty variant: the winner's calls are not looked at
OnHoraTarget_IgnoreCalls(info, s, e) ==
    LET i1 == Bump(info, "dealin_count", 1)
        i2 == Bump(i1, "total_dealin_score", AsU32(-e.deltas[s.player_id]))
        i3 == IF LastIsRiichi(WinnerKawa(s, e.actor)) /\ ~SelfRiichiAccepted(s)
                  THEN Bump(i2, "ippatsu_dealin_count", 1) ELSE i2
        w  == Rel(s.player_id, e.actor)
    IN  IF ~s.riichi_declared[w]
            THEN LET i4 == Bump(i3, "dama_dealin_count", 1)
                 IN  IF NormalizedSelfDelta(s, e.deltas) <= -DamaManganPoints
                         THEN Bump(i4, "dama_mangan_dealin_count", 1) ELSE i4
            ELSE i3

\* Event::Hora, target == player_id (and actor is another seat)
OnHoraTarget(info, s, e) ==
    LET i1 == Bump(info, "dealin_count", 1)
        i2 == Bump(i1, "total_dealin_score", AsU32(-e.deltas[s.player_id]))
        i3 == IF LastIsRiichi(WinnerKawa(s, e.actor)) /\ ~SelfRiichiAccepted(s)
                  THEN Bump(i2, "ippatsu_dealin_count", 1) ELSE i2
        w  == Rel(s.player_id, e.actor)
    IN  IF ~s.riichi_declared[w] /\ s.fuuro_overview[w] = 0
            THEN LET i4 == Bump(i3, "dama_dealin_count", 1)
                 IN  IF NormalizedSelfDelta(s, e.deltas) <= -DamaManganPoints
                         THEN Bump(i4, "dama_mangan_dealin_count", 1) ELSE i4
            ELSE i3

\* faulty variant: the target branch is not an else of the winner branch
OnHora_BothBranches(info, s, e) ==
    LET i1 == IF e.actor = s.player_id THEN OnHoraWinner(info, s, e) ELSE info
    IN  IF e.target = s.player_id THEN OnHoraTarget(i1, s, e) ELSE i1

\* Event::Hora with deltas
OnHora(info, s, e) ==
    IF e.actor = s.player_id THEN OnHoraWinner(info, s, e)
    ELSE IF e.target = s.player_id THEN OnHoraTarget(info, s, e)
    ELSE info

\* has_yakuman_chance: any completing tile whose valuation is Ok(Some) and >= 32000
HasYakumanChance(waits) ==
    \E i \in 1..Len(waits) :
        waits[i].valued /\ waits[i].ron >= YakumanPoints

\* faulty variant: one yakuman chance for every completing tile that qualifies
OnEndKyoku_PerTile(info, s) ==
    LET i1 == IF ~s.is_menzen THEN Bump(info, "open_count", 1) ELSE info
    IN  IF s.rt_shanten = 0
            THEN Bump(i1, "yakuman_chance",
                      Cardinality({i \in 1..Len(s.waits) :
                                      s.waits[i].valued /\ s.waits[i].ron >= YakumanPoints}))
            ELSE i1

\* Event::EndKyoku
OnEndKyoku(info, s) ==
    LET i1 == IF ~s.is_menzen THEN Bump(info, "open_count", 1) ELSE info
    IN  IF s.rt_shanten = 0 /\ HasYakumanChance(s.waits)
            THEN Bump(i1, "yakuman_chance", 1) ELSE i1

\* bail!("missing deltas")
MissingDeltas(e) == e.type = "hora" /\ ~e.has_deltas

\* faulty variant: the hand counted when it ends, not when it starts
MatchEvent_KyokuAtEnd(info, s, danger, e) ==
    CASE e.type = "start_kyoku" -> Bump(info, "total_haipai_shanten", AsU32(s.shanten))
      [] e.type = "reach_accepted" /\ e.actor = s.player_id -> OnReachAccepted(info, s)
      [] e.type = "dahai" /\ e.actor = s.player_id -> OnDahai(info, s, danger, e.pai)
      [] e.type = "hora" -> OnHora(info, s, e)
      [] e.type = "end_kyoku" -> Bump(OnEndKyoku(info, s), "kyoku_count", 1)
      [] OTHER -> info

\* the match on the event (lines 156-280), for an event that does not bail
MatchEvent(info, s, danger, e) ==
    CASE e.type = "start_kyoku" -> OnStartKyoku(info, s)
      [] e.type = "reach_accepted" /\ e.actor = s.player_id -> OnReachAccepted(info, s)
      [] e.type = "dahai" /\ e.actor = s.player_id -> OnDahai(info, s, danger, e.pai)
      [] e.type = "hora" -> OnHora(info, s, e)
      [] e.type = "end_kyoku" -> OnEndKyoku(info, s)
      [] OTHER -> info

\* matches!(event, Event::Dahai { actor, .. } if *actor == player_id)
IsSelfDahai(e, pid) == e.type = "dahai" /\ e.actor = pid

\* faulty variant: the danger queried once the event has been applied
DangerBeforeEvent_AfterUpdate(s, e) ==
    IF IsSelfDahai(e, s.player_id) THEN CalculateDanger(StateUpdate(s, e)) ELSE ZeroDanger

\* danger_before_event (lines 146-151), from the state before state.update
DangerBeforeEvent(s, e) ==
    IF IsSelfDahai(e, s.player_id) THEN CalculateDanger(s) ELSE ZeroDanger

----------------------------------------------------------------------------
(* Logs: one directory entry each.  `fault` is what goes wrong before the    *)
(* replay: the file cannot be read, its JSON is malformed, its mjshead lacks  *)
(* a timestamp, or the converter rejects it.                                  *)

HoraDetail(who, yaku) == [who |-> who, yaku |-> yaku]
EndHora(details) == [type |-> "hora", details |-> details]
EndRyukyoku == [type |-> "ryukyoku", details |-> <<>>]

NoLog == [is_file |-> FALSE]

MkLog(id, names, dur, kyokus, events) ==
    [id |-> id, is_file |-> TRUE, fault |-> "none", names |-> names,
     duration |-> dur, kyokus |-> kyokus, events |-> events]

\* HashMap::entry(k).or_default() followed by a write of v
Put(map, k, v) == [x \in DOMAIN map \cup {k} |-> IF x = k THEN v ELSE map[x]]
\* HashMap::entry(k).or_default(), read
GetOr(map, k, default) == IF k \in DOMAIN map THEN map[k] ELSE default

EmptyMap == [x \in {} |-> 0]

\* the yaku loop of one winning declaration (lines 120-128):
\* [ok, tally]; ok = FALSE when a yaku string has no '('
RECURSIVE CollectDetail(_, _)
CollectDetail(tally, yaku) ==
    IF yaku = <<>> THEN [ok |-> TRUE, tally |-> tally]
    ELSE LET split == SplitOnceParen(Head(yaku)) IN
         IF split = <<>> THEN [ok |-> FALSE, tally |-> tally]
         ELSE IF split[1] = Str_UraDora /\ StartsWithZero(split[2])
                  THEN CollectDetail(tally, Tail(yaku))
                  ELSE CollectDetail(Put(tally, split[1], Add32(GetOr(tally, split[1], 0), 1)),
                                     Tail(yaku))

\* the loop over the winning declarations of one hand (lines 117-129)
RECURSIVE CollectDetails(_, _, _)
CollectDetails(yi, names, details) ==
    IF details = <<>> THEN [ok |-> TRUE, yaku_info |-> yi]
    ELSE LET actor_name == names[Head(details).who]
             r == CollectDetail(GetOr(yi, actor_name, EmptyMap), Head(details).yaku)
             yi2 == Put(yi, actor_name, r.tally)
         IN  IF r.ok THEN CollectDetails(yi2, names, Tail(details))
                     ELSE [ok |-> FALSE, yaku_info |-> yi2]

\* one iteration of `for tenhou_kyoku in log.kyokus` (lines 114-133)
CollectKyoku(yi, names, end_status) ==
    IF end_status.type = "hora" THEN CollectDetails(yi, names, end_status.details)
    ELSE [ok |-> TRUE, yaku_info |-> yi]

----------------------------------------------------------------------------
(* Report assembly (lines 285-332) *)

\* Vec::contains
IsIn(order, n) == \E i \in 1..Len(order) : order[i] = n

\* the orders a HashMap iteration followed by a stable sort_by on `key`,
\* descending, can give the elements of S
Orderings(S) ==
    {f \in [1..Cardinality(S) -> S] : \A i, j \in 1..Cardinality(S) : i # j => f[i] # f[j]}

\* faulty variant: the filter with >= in place of >
Retained_AtLeast(pi) ==
    {n \in DOMAIN pi : ULe(ReportThreshold, pi[n].kyoku_count) /\ ~Contains(n, Str_ashlen)}

\* the filter of line 294
Retained(pi) ==
    {n \in DOMAIN pi : ULt(ReportThreshold, pi[n].kyoku_count) /\ ~Contains(n, Str_ashlen)}

\* entries after the sort of line 296, as name orders
InfoOrders(pi) ==
    {f \in Orderings(Retained(pi)) :
        \A i \in 1..(Len(f) - 1) : ULe(pi[f[i + 1]].kyoku_count, pi[f[i]].kyoku_count)}

\* the data rows of info.csv (lines 298-301)
InfoRows(pi, order) == [i \in 1..Len(order) |-> [name |-> order[i], info |-> pi[order[i]]]]

\* every yaku name of yaku_info
YakuNames(yi) == UNION {DOMAIN yi[n] : n \in DOMAIN yi}

RECURSIVE SumYaku(_, _, _)
SumYaku(yi, names, y) ==
    IF names = {} THEN 0
    ELSE LET n == CHOOSE x \in names : TRUE
         IN  Add32(GetOr(yi[n], y, 0), SumYaku(yi, names \ {n}, y))

\* faulty variant: the totals summed over the players of name_order only
TotalYakuCounts_RetainedOnly(yi) ==
    [y \in YakuNames(yi) |-> SumYaku(yi, {n \in DOMAIN yi : IsIn(name_order, n)}, y)]

\* total_yaku_counts (lines 307-312): summed over yaku_info.values()
TotalYakuCounts(yi) == [y \in YakuNames(yi) |-> SumYaku(yi, DOMAIN yi, y)]

\* yaku_order after the sort of line 314
YakuOrders(yi) ==
    LET total == TotalYakuCounts(yi) IN
    {f \in Orderings(YakuNames(yi)) :
        \A i \in 1..(Len(f) - 1) : ULe(total[f[i + 1]], total[f[i]])}

\* entries of the yaku table (lines 321-323): the names of yaku_info that
\* name_order contains, by their position in name_order
Position(order, n) == CHOOSE i \in 1..Len(order) : order[i] = n
YakuEntries(yi, order) ==
    LET kept == {n \in DOMAIN yi : IsIn(order, n)} IN
    CHOOSE f \in Orderings(kept) :
        \A i \in 1..(Len(f) - 1) : Position(order, f[i]) < Position(order, f[i + 1])

\* the data rows of yaku.csv (lines 325-331)
YakuRows(yi, order, yorder) ==
    LET entries == YakuEntries(yi, order) IN
    [i \in 1..Len(entries) |->
        [name |-> entries[i],
         cells |-> [k \in 1..Len(yorder) |-> GetOr(yi[entries[i]], yorder[k], 0)]]]

----------------------------------------------------------------------------
(* The program: main, one action per step *)

CurrentEvent == log.events[ev_idx]
CurrentName == log.names[player_id]

\* where main goes once the yaku loop is at position k
AfterYaku(k) == IF k > Len(log.kyokus) THEN "seat" ELSE "yaku"

\* line 95-97: the entry is not a file
SkipEntry ==
    /\ pc = "read_dir" /\ entry_idx <= Len(dir) /\ ~dir[entry_idx].is_file
    /\ entry_idx' = entry_idx + 1
    /\ UNCHANGED <<overflow_checks, dir, processed, pc, log, duration, kyoku_idx, player_id,
                   ev_idx, state, danger_before_event, players_info, yaku_info, name_order,
                   info_csv, yaku_csv>>

\* faulty variant: a file that cannot be read or parsed is skipped
ReadLogFail_Skip ==
    /\ pc = "read_dir" /\ entry_idx <= Len(dir)
    /\ dir[entry_idx].is_file /\ dir[entry_idx].fault # "none"
    /\ entry_idx' = entry_idx + 1
    /\ UNCHANGED <<overflow_checks, dir, processed, pc, log, duration, kyoku_idx, player_id,
                   ev_idx, state, danger_before_event, players_info, yaku_info, name_order,
                   info_csv, yaku_csv>>

\* lines 100-112 returning Err: read_to_string, from_json_str, mjshead, tenhou_to_mjai
ReadLogFail ==
    /\ pc = "read_dir" /\ entry_idx <= Len(dir)
    /\ dir[entry_idx].is_file /\ dir[entry_idx].fault # "none"
    /\ entry_idx' = entry_idx + 1
    /\ pc' = "error"
    /\ UNCHANGED <<overflow_checks, dir, processed, log, duration, kyoku_idx, player_id, ev_idx,
                   state, danger_before_event, players_info, yaku_info, name_order, info_csv,
                   yaku_csv>>

\* lines 92-112: the next file is read, parsed and converted
ReadLog ==
    /\ pc = "read_dir" /\ entry_idx <= Len(dir)
    /\ dir[entry_idx].is_file /\ dir[entry_idx].fault = "none"
    /\ entry_idx' = entry_idx + 1
    /\ log' = dir[entry_idx]
    /\ duration' = dir[entry_idx].duration
    /\ kyoku_idx' = 1
    /\ player_id' = 0
    /\ pc' = IF dir[entry_idx].kyokus = <<>> THEN "seat" ELSE "yaku"
    /\ UNCHANGED <<overflow_checks, dir, processed, ev_idx, state, danger_before_event,
                   players_info, yaku_info, name_order, info_csv, yaku_csv>>

\* lines 114-133, one hand
CollectYaku ==
    /\ pc = "yaku"
    /\ LET r == CollectKyoku(yaku_info, log.names, log.kyokus[kyoku_idx]) IN
        /\ yaku_info' = r.yaku_info
        /\ pc' = IF r.ok THEN AfterYaku(kyoku_idx + 1) ELSE "error"
    /\ kyoku_idx' = kyoku_idx + 1
    /\ UNCHANGED <<overflow_checks, dir, entry_idx, processed, log, duration, player_id, ev_idx,
                   state, danger_before_event, players_info, name_order, info_csv, yaku_csv>>

\* faulty variant: seconds_played set to the duration of the log
AddDuration_Assign(info, dur) ==
    IF dur.some THEN [info EXCEPT !.seconds_played = AsU32(dur.secs)] ELSE info

\* the seconds_played of line 139-141
AddDuration(info, dur) ==
    IF dur.some THEN Bump(info, "seconds_played", AsU32(dur.secs)) ELSE info

\* where the replay goes once it is at event k of seat p
AfterEvent(k) == IF k > Len(log.events) THEN "seat" ELSE "query"

\* faulty variant: the state of the previous replay is kept, reseated
BeginSeat_KeepState ==
    /\ pc = "seat" /\ player_id <= 3
    /\ players_info' = Put(players_info, CurrentName,
                           AddDuration(GetOr(players_info, CurrentName, DefaultPlayerInfo),
                                       duration))
    /\ state' = [state EXCEPT !.player_id = player_id]
    /\ ev_idx' = 1
    /\ pc' = AfterEvent(1)
    /\ player_id' = IF log.events = <<>> THEN player_id + 1 ELSE player_id
    /\ UNCHANGED <<overflow_checks, dir, entry_idx, processed, log, duration, kyoku_idx,
                   danger_before_event, yaku_info, name_order, info_csv, yaku_csv>>

\* lines 135-143: the replay of one seat begins
BeginSeat ==
    /\ pc = "seat" /\ player_id <= 3
    /\ players_info' = Put(players_info, CurrentName,
                           AddDuration(GetOr(players_info, CurrentName, DefaultPlayerInfo),
                                       duration))
    /\ state' = NewState(player_id)
    /\ ev_idx' = 1
    /\ pc' = AfterEvent(1)
    /\ player_id' = IF log.events = <<>> THEN player_id + 1 ELSE player_id
    /\ UNCHANGED <<overflow_checks, dir, entry_idx, processed, log, duration, kyoku_idx,
                   danger_before_event, yaku_info, name_order, info_csv, yaku_csv>>

\* line 282-283: the four replays of the log are over
EndLog ==
    /\ pc = "seat" /\ player_id > 3
    /\ processed' = Append(processed, log)
    /\ pc' = "read_dir"
    /\ UNCHANGED <<overflow_checks, dir, entry_idx, log, duration, kyoku_idx, player_id, ev_idx,
                   state, danger_before_event, players_info, yaku_info, name_order, info_csv,
                   yaku_csv>>

\* lines 146-151
QueryDanger ==
    /\ pc = "query"
    /\ danger_before_event' = DangerBeforeEvent(state, CurrentEvent)
    /\ pc' = "update"
    /\ UNCHANGED <<overflow_checks, dir, entry_idx, processed, log, duration, kyoku_idx,
                   player_id, ev_idx, state, players_info, yaku_info, name_order, info_csv,
                   yaku_csv>>

\* line 152, Ok
UpdateState ==
    /\ pc = "update" /\ CurrentEvent.accepted
    /\ state' = StateUpdate(state, CurrentEvent)
    /\ pc' = "match"
    /\ UNCHANGED <<overflow_checks, dir, entry_idx, processed, log, duration, kyoku_idx,
                   player_id, ev_idx, danger_before_event, players_info, yaku_info, name_order,
                   info_csv, yaku_csv>>

\* line 152, Err
UpdateFail ==
    /\ pc = "update" /\ ~CurrentEvent.accepted
    /\ pc' = "error"
    /\ UNCHANGED <<overflow_checks, dir, entry_idx, processed, log, duration, kyoku_idx,
                   player_id, ev_idx, state, danger_before_event, players_info, yaku_info,
                   name_order, info_csv, yaku_csv>>

\* the PlayerInfo after lines 153-280 for an event that does not bail
InfoAfterEvent(info, s, danger, e, dur) == MatchEvent(CountAction(info, s, dur), s, danger, e)

\* some += of lines 153-280 passes u32::MAX: the new value is below the old one
Overflows(old, new) == \E f \in PlayerInfoFields : ULt(new[f], old[f])

\* the arithmetic of the current event traps (overflow checks on)
Traps ==
    /\ overflow_checks
    /\ Overflows(players_info[CurrentName],
                 InfoAfterEvent(players_info[CurrentName], state, danger_before_event,
                                CurrentEvent, duration))

\* lines 153-280, the event is handled
HandleEvent ==
    /\ pc = "match" /\ ~MissingDeltas(CurrentEvent) /\ ~Traps
    /\ players_info' = [players_info EXCEPT ![CurrentName] =
                           InfoAfterEvent(@, state, danger_before_event, CurrentEvent,
                                          duration)]
    /\ ev_idx' = ev_idx + 1
    /\ pc' = AfterEvent(ev_idx + 1)
    /\ player_id' = IF ev_idx + 1 > Len(log.events) THEN player_id + 1 ELSE player_id
    /\ UNCHANGED <<overflow_checks, dir, entry_idx, processed, log, duration, kyoku_idx, state,
                   danger_before_event, yaku_info, name_order, info_csv, yaku_csv>>

\* lines 153-187, bail!("missing deltas")
HandleBail ==
    /\ pc = "match" /\ MissingDeltas(CurrentEvent)
    /\ players_info' = [players_info EXCEPT ![CurrentName] = CountAction(@, state, duration)]
    /\ pc' = "error"
    /\ UNCHANGED <<overflow_checks, dir, entry_idx, processed, log, duration, kyoku_idx,
                   player_id, ev_idx, state, danger_before_event, yaku_info, name_order,
                   info_csv, yaku_csv>>

\* lines 153-280, a += panics with "attempt to add with overflow": the process ends
HandlePanic ==
    /\ pc = "match" /\ ~MissingDeltas(CurrentEvent) /\ Traps
    /\ pc' = "panic"
    /\ UNCHANGED <<overflow_checks, dir, entry_idx, processed, log, duration, kyoku_idx,
                   player_id, ev_idx, state, danger_before_event, players_info, yaku_info,
                   name_order, info_csv, yaku_csv>>

\* lines 286-302: info.csv
WriteInfo ==
    /\ pc = "read_dir" /\ entry_idx > Len(dir)
    /\ \E order \in InfoOrders(players_info) :
        /\ name_order' = order
        /\ info_csv' = Written(<<>>, InfoRows(players_info, order))
    /\ pc' = "write_yaku"
    /\ UNCHANGED <<overflow_checks, dir, entry_idx, processed, log, duration, kyoku_idx,
                   player_id, ev_idx, state, danger_before_event, players_info, yaku_info,
                   yaku_csv>>

\* lines 305-332: yaku.csv
WriteYaku ==
    /\ pc = "write_yaku"
    /\ \E yorder \in YakuOrders(yaku_info) :
        yaku_csv' = Written(yorder, YakuRows(yaku_info, name_order, yorder))
    /\ pc' = "done"
    /\ UNCHANGED <<overflow_checks, dir, entry_idx, processed, log, duration, kyoku_idx,
                   player_id, ev_idx, state, danger_before_event, players_info, yaku_info,
                   name_order, info_csv>>

Next ==
    \/ SkipEntry
    \/ ReadLogFail
    \/ ReadLog
    \/ CollectYaku
    \/ BeginSeat
    \/ EndLog
    \/ QueryDanger
    \/ UpdateState
    \/ UpdateFail
    \/ HandleEvent
    \/ HandleBail
    \/ HandlePanic
    \/ WriteInfo
    \/ WriteYaku

----------------------------------------------------------------------------
(* Inputs: the logs a directory can hold *)

NameA == <<"A">>
NameB == <<"B">>
NameC == <<"C">>
NameD == <<"D">>
NameAshleney == <<"a", "s", "h", "l", "e", "n", "e", "y">>

Names4(a, b, c, d) == [s \in Seats |-> CASE s = 0 -> a [] s = 1 -> b [] s = 2 -> c [] OTHER -> d]

Str_Riichi == <<"R", "(", "1", ")">>
Str_Tanyao == <<"T", "(", "1", ")">>
Str_Ura0 == Str_UraDora \o <<"(", "0", ")">>
Str_Ura2 == Str_UraDora \o <<"(", "2", ")">>
Str_Ura10 == Str_UraDora \o <<"(", "1", "0", ")">>
Str_NoParen == <<"T", "1">>

\* score deltas of a win of d points by w from t (t = w: tsumo, paid by all)
Deltas(w, t, d) ==
    [s \in Seats |-> IF s = w THEN d
                     ELSE IF t = w THEN -(d \div 3)
                     ELSE IF s = t THEN -d ELSE 0]

\* engine views: seat `who` is tenpai on `waits`, the others are not
TenpaiView(who, waits, ura_hits) ==
    [s \in Seats |-> IF s = who THEN SeatView(0, 0, waits, TRUE, ura_hits)
                                ELSE SeatView(2, 2, <<>>, FALSE, 0)]
HaipaiView == [s \in Seats |-> SeatView(s + 1, s + 1, <<>>, s = 0, 0)]
ActView(who) == [s \in Seats |-> SeatView(2, 2, <<>>, s = who, 0)]

\* seat w declares riichi on tile p, accepted
RiichiTurn(w, p, waits) ==
    <<Tsumo(w, ActView(w)), Reach(w, ActView(w)), Dahai(w, p, QuietView),
      ReachAccepted(w, TenpaiView(w, waits, 0))>>

\* seat w draws and discards p
PlainTurn(w, p) == <<Tsumo(w, ActView(w)), Dahai(w, p, QuietView)>>

\* a hand won by tsumo after riichi
HandRiichiTsumo(w, oya, d) ==
    <<StartKyoku(oya, 0, 0, HaipaiView)>>
    \o RiichiTurn(w, 0, <<Wait(2, TRUE, 8000), Wait(3, TRUE, 8000)>>)
    \o <<Tsumo(w, TenpaiView(w, <<Wait(2, TRUE, 8000), Wait(3, TRUE, 8000)>>, 2)),
         Hora(w, w, Deltas(w, w, d), TRUE,
              TenpaiView(w, <<Wait(2, TRUE, 8000), Wait(3, TRUE, 8000)>>, 2)),
         EndKyoku(TenpaiView(w, <<Wait(2, TRUE, 8000), Wait(3, TRUE, 8000)>>, 2))>>

\* a hand in which t discards into the wins of w1 and w2 (double ron)
HandDoubleRon(t, w1, w2, d) ==
    <<StartKyoku(0, 1, 1, HaipaiView)>>
    \o PlainTurn(t, Tile5mr)
    \o <<Hora(w1, t, Deltas(w1, t, d), FALSE, TenpaiView(w1, <<Wait(1, TRUE, d)>>, 0)),
         Hora(w2, t, Deltas(w2, t, d), FALSE, TenpaiView(w2, <<Wait(1, TRUE, d)>>, 0)),
         EndKyoku(QuietView)>>

\* a drawn hand
HandRyukyoku(oya) ==
    <<StartKyoku(oya, 0, 0, HaipaiView)>> \o PlainTurn(oya, 0)
    \o <<Ryukyoku(QuietView), EndKyoku(QuietView)>>

LogTsumo ==
    MkLog(1, Names4(NameA, NameB, NameC, NameD), SomeDuration(600),
          <<EndHora(<<HoraDetail(0, <<Str_Riichi, Str_Ura0>>)>>)>>,
          HandRiichiTsumo(0, 1, 36000))
LogDoubleRon ==
    MkLog(2, Names4(NameB, NameAshleney, NameA, NameD), NoDuration,
          <<EndHora(<<HoraDetail(2, <<Str_Tanyao>>), HoraDetail(3, <<Str_Riichi, Str_Ura2>>)>>)>>,
          HandDoubleRon(1, 2, 3, 8000))
LogSharedName ==
    MkLog(3, Names4(NameB, NameB, NameC, NameA), SomeDuration(300),
          <<EndRyukyoku, EndHora(<<HoraDetail(3, <<Str_Tanyao, Str_Ura2>>)>>)>>,
          HandRyukyoku(1) \o HandRiichiTsumo(3, 3, 30000))
LogNoEvents ==
    MkLog(4, Names4(NameC, NameD, NameA, NameB), SomeDuration(60), <<>>, <<>>)
LogBadYaku ==
    MkLog(5, Names4(NameA, NameB, NameC, NameD), NoDuration,
          <<EndHora(<<HoraDetail(1, <<Str_Riichi, Str_NoParen, Str_Tanyao>>)>>)>>,
          HandRiichiTsumo(1, 0, 8000))
LogMissingDeltas ==
    MkLog(6, Names4(NameA, NameB, NameC, NameD), SomeDuration(60),
          <<EndHora(<<HoraDetail(2, <<Str_Tanyao>>)>>)>>,
          <<StartKyoku(0, 0, 0, HaipaiView), Tsumo(2, ActView(2)),
            HoraNoDeltas(2, 2, ActView(2)), EndKyoku(QuietView)>>)
LogRejected ==
    MkLog(7, Names4(NameA, NameB, NameC, NameD), NoDuration, <<EndRyukyoku>>,
          <<StartKyoku(0, 0, 0, HaipaiView), Rejected(Dahai(1, 0, QuietView)),
            EndKyoku(QuietView)>>)
NotAFile == [MkLog(8, Names4(NameA, NameB, NameC, NameD), NoDuration, <<>>, <<>>)
                EXCEPT !.is_file = FALSE]
LogUnreadable == [LogTsumo EXCEPT !.id = 9, !.fault = "unreadable"]

\* the logs of the multi-log runs
SmallPool ==
    {LogTsumo, LogDoubleRon, LogSharedName, LogNoEvents, LogBadYaku, LogMissingDeltas,
     LogRejected, NotAFile, LogUnreadable}

\* the single-log runs: one hand each, generated from the choices below

Waits2 == <<Wait(2, TRUE, 8000), Wait(3, FALSE, 0)>>

\* what the winner w did before the win
WinnerTurns(w, pre) ==
    CASE pre = "riichi" -> RiichiTurn(w, 0, Waits2)
      [] pre = "riichi_old" -> RiichiTurn(w, 0, Waits2) \o PlainTurn(w, Tile5m)
      [] pre = "open" -> PlainTurn((w + 3) % 4, 0)
                         \o <<Pon(w, (w + 3) % 4, ActView(w)), Dahai(w, Tile5m, QuietView)>>
      [] pre = "open_far" -> PlainTurn((w + 2) % 4, 0)
                             \o <<Pon(w, (w + 2) % 4, ActView(w)), Dahai(w, Tile5m, QuietView)>>
      [] OTHER -> PlainTurn(w, Tile5m)

\* what the target t did before the deal-in discard
TargetTurns(t, tpre) ==
    CASE tpre = "accepted" -> RiichiTurn(t, 0, Waits2) \o PlainTurn(t, Tile5mr)
      [] tpre = "pending" -> <<Tsumo(t, ActView(t)), Reach(t, ActView(t)),
                               Dahai(t, Tile5mr, QuietView)>>
      [] OTHER -> PlainTurn(t, Tile5mr)

HoraView(w) == TenpaiView(w, Waits2, 1)

\* a hand won by w, by tsumo (t = w) or from the discard of t
HandWin(w, t, pre, oya, hk, d) ==
    <<StartKyoku(oya, hk, hk, HaipaiView)>>
    \o WinnerTurns(w, pre)
    \o (IF t = w THEN <<Tsumo(w, HoraView(w))>> ELSE PlainTurn(t, Tile5mr))
    \o <<Hora(w, t, Deltas(w, t, d), pre \in {"riichi", "riichi_old"}, HoraView(w)),
         EndKyoku(HoraView(w))>>

LogWin(w, t, pre, oya, hk, d) ==
    MkLog(100, Names4(NameA, NameB, NameC, NameD),
          IF hk = 0 THEN SomeDuration(60) ELSE NoDuration,
          <<EndHora(<<HoraDetail(w, <<Str_Tanyao>>)>>)>>,
          HandWin(w, t, pre, oya, hk, d))

WinPool ==
    {LogWin(w, t, pre, oya, hk, d) :
        w \in {0, 3}, t \in {0, 3}, pre \in {"dama", "riichi", "open"},
        oya \in {0, 1}, hk \in {0, 1}, d \in {8000, 17300, 24000, 33300, 48000}}

\* a hand in which t deals in to w, and with it to the next seat if `double`
HandDealIn(t, w, pre, tpre, double, oya, d) ==
    <<StartKyoku(oya, 0, 0, HaipaiView)>>
    \o WinnerTurns(w, pre)
    \o TargetTurns(t, tpre)
    \o <<Hora(w, t, Deltas(w, t, d), pre \in {"riichi", "riichi_old"}, HoraView(w))>>
    \o (IF double
            THEN <<Hora((w + 1) % 4, t, Deltas((w + 1) % 4, t, d), FALSE,
                        HoraView((w + 1) % 4))>>
            ELSE <<>>)
    \o <<EndKyoku(QuietView)>>

LogDealIn(t, pre, tpre, double, oya, d) ==
    MkLog(100, Names4(NameA, NameB, NameC, NameD), SomeDuration(60),
          <<EndHora(<<HoraDetail((t + 1) % 4, <<Str_Riichi, Str_Ura2>>)>>)>>,
          HandDealIn(t, (t + 1) % 4, pre, tpre, double, oya, d))

DealInPool ==
    {LogDealIn(t, pre, tpre, double, oya, d) :
        t \in Seats, pre \in {"dama", "riichi", "riichi_old", "open", "open_far"},
        tpre \in {"none", "accepted", "pending"}, double \in BOOLEAN,
        oya \in {0, 1}, d \in {7700, 8000}}

\* what an opponent o of the discarding seat did before the discard
OpponentTurns(o, opre, p) ==
    CASE opre = "riichi" -> RiichiTurn(o, p, Waits2)
      [] opre = "riichi_old" -> RiichiTurn(o, p, Waits2) \o PlainTurn(o, p)
      [] opre = "plain" -> PlainTurn(o, p)
      [] OTHER -> <<>>

\* a hand in which x discards p after its opponents' turns, then a draw
HandDiscard(x, p, xpre, o1, q, o2) ==
    <<StartKyoku(0, 0, 0, HaipaiView)>>
    \o (IF xpre = "accepted" THEN RiichiTurn(x, 0, Waits2) ELSE <<>>)
    \o OpponentTurns((x + 1) % 4, o1, q)
    \o OpponentTurns((x + 2) % 4, o2, 0)
    \o PlainTurn(x, p)
    \o <<Ryukyoku(QuietView), EndKyoku(QuietView)>>

LogDiscard(x, p, xpre, o1, q, o2) ==
    MkLog(100, Names4(NameA, NameB, NameC, NameD), NoDuration, <<EndRyukyoku>>,
          HandDiscard(x, p, xpre, o1, q, o2))

DiscardPool ==
    {LogDiscard(x, p, xpre, o1, q, o2) :
        x \in Seats, p \in {0, Tile5m, Tile5mr}, xpre \in {"none", "accepted"},
        o1 \in {"riichi", "plain"}, q \in {0, Tile5m},
        o2 \in {"none", "riichi", "riichi_old"}}

\* two hands won by w from t (t = w: tsumo), worth d1 and then d2 to the winner; a
\* negative d is a win event whose deltas take points from the winner and give
\* points to the target
HandTwoWins(w, t, d1, d2) ==
    HandWin(w, t, "dama", 1, 0, d1) \o HandWin(w, t, "dama", 1, 0, d2)

LogTwoWins(w, t, d1, d2) ==
    MkLog(100, Names4(NameA, NameB, NameC, NameD), NoDuration,
          <<EndHora(<<HoraDetail(w, <<Str_Tanyao, Str_Ura0>>)>>),
            EndHora(<<HoraDetail(w, <<Str_Ura10, Str_Tanyao>>)>>)>>,
          HandTwoWins(w, t, d1, d2))

TwoWinsPool ==
    {LogTwoWins(w, t, d1, d2) : w \in {0, 3}, t \in {0, 3}, d1 \in {8000, -1000},
                                d2 \in {8000, -1000}}

\* the completing tiles a seat can hold at the end of a hand, with their valuation
EndWaits ==
    {<<>>, <<Wait(1, FALSE, 0)>>, <<Wait(1, TRUE, 24000)>>, <<Wait(1, TRUE, 32000)>>,
     <<Wait(2, TRUE, 8000), Wait(1, TRUE, 48000)>>,
     <<Wait(2, TRUE, 32000), Wait(1, TRUE, 32000)>>}

\* a drawn hand at whose end seat x, open or concealed, has the given shanten
\* numbers and completing tiles
HandChance(x, open, sh, rt, waits) ==
    <<StartKyoku(0, 0, 0, HaipaiView)>>
    \o WinnerTurns(x, IF open THEN "open" ELSE "dama")
    \o <<Ryukyoku(QuietView),
         EndKyoku([s \in Seats |-> IF s = x THEN SeatView(sh, rt, waits, FALSE, 0)
                                            ELSE SeatView(2, 2, <<>>, FALSE, 0)])>>

LogChance(x, open, sh, rt, waits) ==
    MkLog(100, Names4(NameA, NameB, NameC, NameD), NoDuration, <<EndRyukyoku>>,
          HandChance(x, open, sh, rt, waits))

ChancePool ==
    {LogChance(x, open, sh, rt, waits) :
        x \in {0, 2}, open \in BOOLEAN, sh \in {0, 1}, rt \in {0, 1}, waits \in EndWaits}

RichPool == WinPool \cup DealInPool \cup DiscardPool \cup TwoWinsPool \cup ChancePool

\* the listings read_dir can give: every sequence of at most MaxLogs entries
RECURSIVE Listings(_, _)
Listings(pool, n) ==
    IF n = 0 THEN {<<>>}
    ELSE LET shorter == Listings(pool, n - 1)
         IN  shorter \cup {<<l>> \o d : l \in pool, d \in {x \in shorter : Len(x) = n - 1}}

----------------------------------------------------------------------------
(* Specification *)

InitRest ==
    /\ overflow_checks \in BOOLEAN
    /\ entry_idx = 1
    /\ processed = <<>>
    /\ pc = "read_dir"
    /\ log = NoLog
    /\ duration = NoDuration
    /\ kyoku_idx = 1
    /\ player_id = 0
    /\ ev_idx = 1
    /\ state = NoState
    /\ danger_before_event = ZeroDanger
    /\ players_info = EmptyMap
    /\ yaku_info = EmptyMap
    /\ name_order = <<>>
    /\ info_csv = NotWritten
    /\ yaku_csv = NotWritten

Init ==
    /\ dir \in Listings(SmallPool, MaxLogs) \cup {<<l>> : l \in RichPool}
    /\ InitRest

Spec == Init /\ [][Next]_vars

----------------------------------------------------------------------------
(* Shape of an event stream *)

\* the logs whose events have been replayed, wholly or in part
SeenLogs == {processed[i] : i \in 1..Len(processed)} \cup (IF log.is_file THEN {log} ELSE {})

\* the hand event i belongs to: the number of hand starts up to it
HandIndex(events, i) == Cardinality({k \in 1..i : events[k].type = "start_kyoku"})

\* every win event lies in a hand
WinsInHands(events) ==
    \A i \in 1..Len(events) : events[i].type = "hora" => HandIndex(events, i) >= 1

\* no seat is the winner of two win events of one hand
OneWinPerSeatPerHand(events) ==
    \A i, j \in 1..Len(events) :
        (/\ i < j /\ events[i].type = "hora" /\ events[j].type = "hora"
         /\ HandIndex(events, i) = HandIndex(events, j))
        => events[i].actor # events[j].actor

\* no seat is the target of two win events (by other seats) of one hand
OneDealInPerSeatPerHand(events) ==
    \A i, j \in 1..Len(events) :
        (/\ i < j /\ events[i].type = "hora" /\ events[j].type = "hora"
         /\ HandIndex(events, i) = HandIndex(events, j)
         /\ events[i].actor # events[i].target /\ events[j].actor # events[j].target)
        => events[i].target # events[j].target

----------------------------------------------------------------------------
(* Claims *)

\* C1: for every player, riichi_agari_count + dama_agari_count + open_agari_count
\* equals agari_count, after any sequence of replayed events over any logs.
C1_WinKindsSumToWins ==
    \A n \in DOMAIN players_info :
        Add32(Add32(players_info[n].riichi_agari_count, players_info[n].dama_agari_count),
              players_info[n].open_agari_count) = players_info[n].agari_count

\* a player who has won twice, once after riichi and once concealed without it
C1_Witness ==
    \E n \in DOMAIN players_info :
        /\ players_info[n].agari_count = 2
        /\ players_info[n].riichi_agari_count = 1
        /\ players_info[n].dama_agari_count = 1

\* C2: for every player, yakuman_count <= sanbaiman_count <= baiman_count <= agari_count.
C2_TiersNest ==
    \A n \in DOMAIN players_info :
        /\ ULe(players_info[n].yakuman_count, players_info[n].sanbaiman_count)
        /\ ULe(players_info[n].sanbaiman_count, players_info[n].baiman_count)
        /\ ULe(players_info[n].baiman_count, players_info[n].agari_count)

\* a player with a yakuman win and a win of a lower tier
C2_Witness ==
    \E n \in DOMAIN players_info :
        /\ players_info[n].yakuman_count = 1
        /\ players_info[n].sanbaiman_count = 1
        /\ players_info[n].baiman_count = 2

\* C3 as claimed: for every player, at every point, dealin_count <= kyoku_count,
\* whatever the number of win events of a hand that have the same target.
C3_DealinAtMostHands_Claimed ==
    (\A l \in SeenLogs : WinsInHands(l.events))
    => \A n \in DOMAIN players_info :
           ULe(players_info[n].dealin_count, players_info[n].kyoku_count)

\* C3: for every player, at every point, dealin_count <= kyoku_count, for every
\* event stream in which each hand has one hand-start event and each seat is the
\* target of at most one win event per hand.
C3_DealinAtMostHands ==
    (\A l \in SeenLogs : WinsInHands(l.events) /\ OneDealInPerSeatPerHand(l.events))
    => \A n \in DOMAIN players_info :
           ULe(players_info[n].dealin_count, players_info[n].kyoku_count)

\* a player who has dealt in, in a run whose hands have one deal-in per seat
C3_Witness ==
    /\ \A l \in SeenLogs : WinsInHands(l.events) /\ OneDealInPerSeatPerHand(l.events)
    /\ \E n \in DOMAIN players_info :
           players_info[n].dealin_count >= 1
           /\ players_info[n].dealin_count = players_info[n].kyoku_count

\* C4: for every player, at every point, agari_count <= kyoku_count, for every
\* event stream in which each hand has one hand-start event and each seat is the
\* winner of at most one win event per hand.
C4_WinsAtMostHands ==
    (\A l \in SeenLogs : WinsInHands(l.events) /\ OneWinPerSeatPerHand(l.events))
    => \A n \in DOMAIN players_info :
           ULe(players_info[n].agari_count, players_info[n].kyoku_count)

\* a player who has won every hand played, in a run of such streams
C4_Witness ==
    /\ \A l \in SeenLogs : WinsInHands(l.events) /\ OneWinPerSeatPerHand(l.events)
    /\ \E n \in DOMAIN players_info :
           players_info[n].agari_count >= 1
           /\ players_info[n].agari_count = players_info[n].kyoku_count

----------------------------------------------------------------------------
(* The accumulators a listing gives when its logs are processed one after    *)
(* the other in a given order, each as main processes it (lines 114-282).    *)

\* the replay of events k.. of one seat (lines 145-281)
RECURSIVE ReplayFrom(_, _, _, _, _)
ReplayFrom(info, s, events, k, dur) ==
    IF k > Len(events) THEN info
    ELSE LET e == events[k]
             danger == DangerBeforeEvent(s, e)
             s2 == StateUpdate(s, e)
         IN  ReplayFrom(InfoAfterEvent(info, s2, danger, e, dur), s2, events, k + 1, dur)

\* the replays of seats pid..3 of one log (lines 135-282)
RECURSIVE ReplaySeats(_, _, _)
ReplaySeats(pi, l, pid) ==
    IF pid > 3 THEN pi
    ELSE LET name == l.names[pid]
             info == AddDuration(GetOr(pi, name, DefaultPlayerInfo), l.duration)
         IN  ReplaySeats(Put(pi, name, ReplayFrom(info, NewState(pid), l.events, 1, l.duration)),
                         l, pid + 1)

\* the yaku loop over hands k.. of one log (lines 114-133)
RECURSIVE CollectFrom(_, _, _)
CollectFrom(yi, l, k) ==
    IF k > Len(l.kyokus) THEN yi
    ELSE CollectFrom(CollectKyoku(yi, l.names, l.kyokus[k]).yaku_info, l, k + 1)

\* the logs of a sequence, one after the other
RECURSIVE ProcessLogs(_, _)
ProcessLogs(acc, logs) ==
    IF logs = <<>> THEN acc
    ELSE ProcessLogs([players_info |-> ReplaySeats(acc.players_info, Head(logs), 0),
                      yaku_info |-> CollectFrom(acc.yaku_info, Head(logs), 1)],
                     Tail(logs))

\* a sequence of logs in ascending order of id
RECURSIVE InsertById(_, _)
InsertById(l, sorted) ==
    IF sorted = <<>> THEN <<l>>
    ELSE IF l.id <= Head(sorted).id THEN <<l>> \o sorted
    ELSE <<Head(sorted)>> \o InsertById(l, Tail(sorted))

RECURSIVE SortById(_)
SortById(logs) == IF logs = <<>> THEN <<>> ELSE InsertById(Head(logs), SortById(Tail(logs)))

\* the loop over the directory has ended without an error
LoopOver == (pc = "read_dir" /\ entry_idx > Len(dir)) \/ pc \in {"write_yaku", "done"}

\* C5: whatever the order in which the logs of a directory are processed, the
\* final per-player counters and yaku tallies are those of processing the same
\* logs in ascending order of id: every permutation gives the same totals.
C5_AggregationCommutes ==
    LoopOver =>
        LET canonical == ProcessLogs([players_info |-> EmptyMap, yaku_info |-> EmptyMap],
                                     SortById(processed))
        IN  /\ players_info = canonical.players_info
            /\ yaku_info = canonical.yaku_info

\* two logs that share players were processed in descending order of id
C5_Witness ==
    /\ LoopOver
    /\ Len(processed) = 2
    /\ processed[1].id > processed[2].id
    /\ \E n \in DOMAIN players_info :
           /\ players_info[n].agari_count = 2
           /\ ULt(0, players_info[n].seconds_played)
           /\ n \in DOMAIN yaku_info

----------------------------------------------------------------------------
(* The report on its own: main at line 285, the loop over, with accumulators *)
(* of players whose kyoku_count is around the report threshold.  The logs    *)
(* that led there (a hundred hands per player) are not part of the state.    *)

NameAshle == <<"a", "s", "h", "l", "e">>
NameXAshlen == <<"x", "a", "s", "h", "l", "e", "n">>
ReportNames == {NameA, NameAshle, NameAshleney, NameXAshlen}

YakuT == <<"T">>
YakuR == <<"R">>

\* the yaku tallies of one player: none (never won), or one of two tallies
ReportTallies == {EmptyMap, (YakuT :> 1), (YakuR :> 2)}

\* the wins behind a tally
TallyWins(t) == IF t = EmptyMap THEN 0 ELSE IF YakuT \in DOMAIN t THEN 1 ELSE 2

\* counters of a player of `kyoku` drawn or lost hands but for the wins of the
\* tally, each a concealed win of 1000 points without riichi on a single wait
ReportInfo(kyoku, t) ==
    [DefaultPlayerInfo EXCEPT !.kyoku_count = kyoku, !.agari_count = TallyWins(t),
                              !.dama_agari_count = TallyWins(t),
                              !.total_agari_score = 1000 * TallyWins(t),
                              !.total_agari_waits = TallyWins(t)]

\* what is known of one player: absent, or hands played and tally
ReportPlayers ==
    {[present |-> FALSE, kyoku |-> 0, tally |-> EmptyMap]}
    \cup {[present |-> TRUE, kyoku |-> k, tally |-> t] :
            k \in (ReportThreshold - 1)..(ReportThreshold + 2), t \in ReportTallies}

InitReport ==
    /\ \E choice \in [ReportNames -> ReportPlayers] :
        LET present == {n \in ReportNames : choice[n].present}
            winners == {n \in present : choice[n].tally # EmptyMap}
        IN  /\ players_info = [n \in present |-> ReportInfo(choice[n].kyoku, choice[n].tally)]
            /\ yaku_info = [n \in winners |-> choice[n].tally]
    /\ overflow_checks \in BOOLEAN
    /\ dir = <<>>
    /\ entry_idx = 1
    /\ processed = <<>>
    /\ pc = "read_dir"
    /\ log = NoLog
    /\ duration = NoDuration
    /\ kyoku_idx = 1
    /\ player_id = 0
    /\ ev_idx = 1
    /\ state = NoState
    /\ danger_before_event = ZeroDanger
    /\ name_order = <<>>
    /\ info_csv = NotWritten
    /\ yaku_csv = NotWritten

NextReport == WriteInfo \/ WriteYaku

SpecReport == InitReport /\ [][NextReport]_vars

\* the names of the rows of a table
RowNames(rows) == [i \in 1..Len(rows) |-> rows[i].name]

\* C6 as claimed: the rows of the yaku table are exactly the rows of the player
\* info table, in the same order, a retained player who never won included.
C6_YakuRowsAreInfoRows_Claimed ==
    pc = "done" => RowNames(yaku_csv.rows) = RowNames(info_csv.rows)

\* C7: a player has a row in the player info table if and only if their
\* kyoku_count is above 100 and their name does not contain "ashlen"; a player
\* with kyoku_count <= 100 has a row in neither table; the rows are in
\* non-increasing order of kyoku_count.
C7_ReportFilterAndOrder ==
    /\ info_csv.written =>
        /\ \A n \in DOMAIN players_info :
              IsIn(RowNames(info_csv.rows), n)
              <=> (ULt(100, players_info[n].kyoku_count) /\ ~Contains(n, Str_ashlen))
        /\ \A i \in 1..Len(info_csv.rows) :
              /\ info_csv.rows[i].name \in DOMAIN players_info
              /\ info_csv.rows[i].info = players_info[info_csv.rows[i].name]
        /\ \A i \in 1..(Len(info_csv.rows) - 1) :
              ULe(info_csv.rows[i + 1].info.kyoku_count, info_csv.rows[i].info.kyoku_count)
    /\ yaku_csv.written =>
        \A n \in DOMAIN players_info :
            ULe(players_info[n].kyoku_count, 100) => ~IsIn(RowNames(yaku_csv.rows), n)

\* both tables written: two players retained with different hand counts, one
\* player with a yaku tally at exactly 100 hands, one denylisted above 100
C7_Witness ==
    /\ pc = "done"
    /\ Len(info_csv.rows) = 2
    /\ info_csv.rows[1].info.kyoku_count > info_csv.rows[2].info.kyoku_count
    /\ \E n \in DOMAIN yaku_info : players_info[n].kyoku_count = 100
    /\ \E n \in DOMAIN players_info :
           players_info[n].kyoku_count > 100 /\ ~IsIn(RowNames(info_csv.rows), n)

\* the occurrences of yaku y summed over the players of `names`
TotalOver(names, y) == SumYaku(yaku_info, names \cap DOMAIN yaku_info, y)

\* the players with a row in the player info table
RetainedNames == {info_csv.rows[i].name : i \in 1..Len(info_csv.rows)}

\* the header is in descending order of the totals over the players of `names`
HeaderDescending(names) ==
    \A k \in 1..(Len(yaku_csv.header) - 1) :
        ULe(TotalOver(names, yaku_csv.header[k + 1]), TotalOver(names, yaku_csv.header[k]))

\* C8 as claimed: the columns of the yaku table are in descending order of the
\* occurrences summed across the retained players only.
C8_ColumnsByRetainedTotals_Claimed ==
    yaku_csv.written => HeaderDescending(RetainedNames)

\* C8: the columns of the yaku table are every scoring-condition name tallied for
\* any player, in descending order of the occurrences summed across all players
\* with a tally, retained or not, and a cell is 0 where the player has no
\* recorded occurrence of that name.
C8_ColumnsByTotals ==
    yaku_csv.written =>
        /\ {yaku_csv.header[k] : k \in 1..Len(yaku_csv.header)} = YakuNames(yaku_info)
        /\ Len(yaku_csv.header) = Cardinality(YakuNames(yaku_info))
        /\ HeaderDescending(DOMAIN yaku_info)
        /\ \A i \in 1..Len(yaku_csv.rows) :
              LET row == yaku_csv.rows[i] IN
              /\ Len(row.cells) = Len(yaku_csv.header)
              /\ \A k \in 1..Len(yaku_csv.header) :
                    row.cells[k] = IF yaku_csv.header[k] \in DOMAIN yaku_info[row.name]
                                       THEN yaku_info[row.name][yaku_csv.header[k]]
                                       ELSE 0

\* a yaku table whose first column leads only thanks to a player without a row,
\* and in which a retained player has a 0 cell
C8_Witness ==
    /\ pc = "done"
    /\ Len(yaku_csv.header) = 2
    /\ ULt(TotalOver(RetainedNames, yaku_csv.header[1]),
           TotalOver(RetainedNames, yaku_csv.header[2]))
    /\ \E i \in 1..Len(yaku_csv.rows) : yaku_csv.rows[i].cells[1] = 0

----------------------------------------------------------------------------
(* Errors *)

\* a tenhou yaku string without the '(' that precedes its count
NoParen(y) == \A i \in 1..Len(y) : y[i] # "("

\* processing the log raises an error: the file is unreadable or malformed, a
\* yaku string has no '(', a win event has no deltas, or a state update fails
LogRaises(l) ==
    \/ l.fault # "none"
    \/ \E k \in 1..Len(l.kyokus) : \E d \in 1..Len(l.kyokus[k].details) :
          \E y \in 1..Len(l.kyokus[k].details[d].yaku) : NoParen(l.kyokus[k].details[d].yaku[y])
    \/ \E k \in 1..Len(l.events) :
          \/ ~l.events[k].accepted
          \/ l.events[k].type = "hora" /\ ~l.events[k].has_deltas

IsFile(l) == l.is_file

\* the files among the first k entries of the directory
FilesUpTo(k) == SelectSeq(SubSeq(dir, 1, k), IsFile)

C9_Inv ==
    /\ \A i \in 1..Len(processed) : ~LogRaises(processed[i])
    /\ \A i \in 1..(entry_idx - 2) : dir[i].is_file => ~LogRaises(dir[i])
    /\ pc = "error" =>
        /\ ~info_csv.written /\ ~yaku_csv.written
        /\ dir[entry_idx - 1].is_file /\ LogRaises(dir[entry_idx - 1])
        /\ processed = FilesUpTo(entry_idx - 2)
    /\ (info_csv.written \/ yaku_csv.written) =>
        /\ entry_idx > Len(dir)
        /\ processed = FilesUpTo(Len(dir))
        /\ \A i \in 1..Len(dir) : dir[i].is_file => ~LogRaises(dir[i])
    /\ (pc \in {"write_yaku", "done"}) = info_csv.written
    /\ (pc = "done") = yaku_csv.written

\* C9: fail-fast.  If processing a log raises an error, the run is in the error
\* state at that log and stays there: no later log is processed and neither table
\* is written; the tables are written only after every log of the directory has
\* been processed without error.
C9_FailFast == []C9_Inv /\ [][pc = "error" => UNCHANGED vars]_vars

\* the run has stopped at a log that raises, with a sound log still unread
C9_Witness ==
    /\ pc = "error"
    /\ entry_idx <= Len(dir)
    /\ dir[entry_idx].is_file /\ ~LogRaises(dir[entry_idx])
    /\ players_info # EmptyMap

----------------------------------------------------------------------------
(* Order of the danger query, the state update and the comparison *)

\* the state of the replay of seat pid once the first k events are applied
RECURSIVE StateAfter(_, _, _)
StateAfter(events, pid, k) ==
    IF k = 0 THEN NewState(pid) ELSE StateUpdate(StateAfter(events, pid, k - 1), events[k])

\* the estimate the replay must hold for the event at ev_idx: the danger of the
\* state before that event for a discard of the replayed seat, else all zero
ExpectedDanger ==
    IF CurrentEvent.type = "dahai" /\ CurrentEvent.actor = player_id
        THEN CalculateDanger(StateAfter(log.events, player_id, ev_idx - 1))
        ELSE ZeroDanger

C10_Inv ==
    /\ pc = "update" =>
        /\ state = StateAfter(log.events, player_id, ev_idx - 1)
        /\ danger_before_event = ExpectedDanger
    /\ pc = "match" =>
        /\ state = StateAfter(log.events, player_id, ev_idx)
        /\ danger_before_event = ExpectedDanger

\* the comparison of a discard of the replayed seat: against the estimate of the
\* state before the discard, with the discard applied
C10_Compare ==
    (pc = "match" /\ CurrentEvent.type = "dahai" /\ CurrentEvent.actor = player_id)
    => players_info'[CurrentName].ippatsu_brazen_count =
           Add32(players_info[CurrentName].ippatsu_brazen_count,
                 Cardinality({r \in 1..3 :
                     /\ LastIsRiichi(StateAfter(log.events, player_id, ev_idx).kawa[r])
                     /\ ~StateAfter(log.events, player_id, ev_idx).riichi_accepted[0]
                     /\ ExpectedDanger[r][Deaka(CurrentEvent.pai)] > 0}))

\* C10: for every discard by the replayed seat the danger estimate is taken from
\* the state before the discard, the discard is then applied, and only then is
\* the captured estimate compared against the discarded tile; for every other
\* event the estimate is all zero.
C10_QueryUpdateCompare == []C10_Inv /\ [][C10_Compare]_vars

\* a discard of the replayed seat is about to be compared: the estimate captured
\* differs from the estimate of the updated state, and an opponent is in its
\* ippatsu window with the tile dangerous to it
C10_Witness ==
    /\ pc = "match" /\ CurrentEvent.type = "dahai" /\ CurrentEvent.actor = player_id
    /\ danger_before_event # CalculateDanger(state)
    /\ \E r \in 1..3 : BrazenAgainst(state, danger_before_event, CurrentEvent.pai, r)
    /\ \E r \in 1..3 : LastIsRiichi(state.kawa[r])
                       /\ danger_before_event[r][Deaka(CurrentEvent.pai)] = 0

----------------------------------------------------------------------------
(* Counters over the run *)

\* the counters of the player of the seat being replayed, before and after a step
InfoNow == players_info[CurrentName]
InfoNext == players_info'[CurrentName]

\* C11: every counter of every player is monotonically non-decreasing over the
\* whole run: no step removes a player or lowers any PlayerInfo field, the score
\* sums total_agari_score and total_dealin_score included.
C11_CountersNeverDecrease_Claimed ==
    [][\A n \in DOMAIN players_info :
          /\ n \in DOMAIN players_info'
          /\ \A f \in PlayerInfoFields : ULe(players_info[n][f], players_info'[n][f])]_vars

----------------------------------------------------------------------------
(* Win events *)

\* the step handles the current event to its end (no bail, no panic)
Handled == pc = "match" /\ pc' \notin {"match", "error", "panic"}

\* by how much a counter of the replayed seat's player grows in the step
Grows(f, n) == InfoNext[f] = Add32(InfoNow[f], n)

\* this seat's raw delta less the honba and kyotaku on the table
UnscaledDelta(s, e) == e.deltas[s.player_id] - 300 * s.honba - 1000 * s.kyotaku

\* the normalized delta, two thirds of the unscaled one for the dealer, reaches t
NormalizedReaches(s, e, t) ==
    IF s.oya = 0 THEN 2 * UnscaledDelta(s, e) >= 3 * t ELSE UnscaledDelta(s, e) >= t

\* C12: on a win event whose winner is the replayed seat, agari_count grows by 1
\* and total_agari_score by the seat's raw delta, and yakuman_count,
\* sanbaiman_count and baiman_count each grow by 1 exactly when the normalized
\* delta (raw delta - 300 * honba - 1000 * kyotaku, times 2/3 for the dealer) is
\* at least 32000, 24000 and 16000, and by 0 otherwise; so a non-dealer win of
\* 8000 with no honba and no kyotaku moves no tier counter.
C12_WinScoreAndTiers ==
    [][(Handled /\ CurrentEvent.type = "hora" /\ CurrentEvent.actor = player_id) =>
          /\ Grows("agari_count", 1)
          /\ Grows("total_agari_score", CurrentEvent.deltas[player_id])
          /\ Grows("yakuman_count",
                   IF NormalizedReaches(state, CurrentEvent, 32000) THEN 1 ELSE 0)
          /\ Grows("sanbaiman_count",
                   IF NormalizedReaches(state, CurrentEvent, 24000) THEN 1 ELSE 0)
          /\ Grows("baiman_count",
                   IF NormalizedReaches(state, CurrentEvent, 16000) THEN 1 ELSE 0)]_vars

\* the event just handled by the replay of the current seat
LastHandled == log.events[ev_idx - 1]

\* the replay has just handled an event and goes on with the next one
JustHandled == pc = "query" /\ ev_idx > 1

\* a dealer has just won 33300 with one honba and one kyotaku on the table: the
\* unscaled delta 32000 is a yakuman, the normalized one, 21333, only a baiman
C12_Witness ==
    /\ JustHandled
    /\ LastHandled.type = "hora" /\ LastHandled.actor = player_id
    /\ LastHandled.deltas[player_id] = 33300
    /\ state.oya = 0 /\ state.honba = 1 /\ state.kyotaku = 1
    /\ players_info[CurrentName].agari_count = 1
    /\ players_info[CurrentName].total_agari_score = 33300
    /\ players_info[CurrentName].baiman_count = 1
    /\ players_info[CurrentName].sanbaiman_count = 0

----------------------------------------------------------------------------
(* Yaku collection *)

\* the decimal digits, by value
DigitValue(c) ==
    CASE c = "0" -> 0 [] c = "1" -> 1 [] c = "2" -> 2 [] c = "3" -> 3 [] c = "4" -> 4
      [] c = "5" -> 5 [] c = "6" -> 6 [] c = "7" -> 7 [] c = "8" -> 8 [] c = "9" -> 9
      [] OTHER -> -1

\* the number written at the start of a text (0 when it starts with no digit)
RECURSIVE DecimalPrefix(_, _)
DecimalPrefix(text, acc) ==
    IF text = <<>> \/ DigitValue(Head(text)) < 0 THEN acc
    ELSE DecimalPrefix(Tail(text), 10 * acc + DigitValue(Head(text)))

\* the name of a yaku entry "name(count)" and the count embedded in it
EntryName(entry) == SplitOnceParen(entry)[1]
EntryCount(entry) == DecimalPrefix(SplitOnceParen(entry)[2], 0)

\* the positions <<declaration, entry>> of the yaku entries of one hand's end status
EntryPositions(end_status) ==
    UNION {{<<i, j>> : j \in 1..Len(end_status.details[i].yaku)} :
              i \in 1..Len(end_status.details)}

\* the entries of one hand's end status that count for player n under name y
CountedEntries(names, end_status, n, y) ==
    {ij \in EntryPositions(end_status) :
        /\ names[end_status.details[ij[1]].who] = n
        /\ LET entry == end_status.details[ij[1]].yaku[ij[2]]
           IN  /\ EntryName(entry) = y
               /\ ~(y = Str_UraDora /\ EntryCount(entry) = 0)}

\* the yaku names a hand's end status lists
ListedNames(end_status) ==
    {EntryName(end_status.details[ij[1]].yaku[ij[2]]) : ij \in EntryPositions(end_status)}

\* the tally of player n under name y
TallyOf(yi, n, y) == GetOr(GetOr(yi, n, EmptyMap), y, 0)

\* C13: when the yaku of one hand are collected, each listed name adds exactly one
\* to the winner's tally under that name, once per listing, except that an
\* "Ura Dora" entry whose embedded count is zero adds nothing; an "Ura Dora"
\* entry with a nonzero count, and every other name, always adds one.  No other
\* tally changes.
C13_YakuCollection ==
    [][(pc = "yaku" /\ pc' \notin {"error"} /\ kyoku_idx' = kyoku_idx + 1) =>
          \A n \in DOMAIN yaku_info' \cup {log.names[p] : p \in Seats} :
              \A y \in ListedNames(log.kyokus[kyoku_idx])
                        \cup DOMAIN GetOr(yaku_info', n, EmptyMap) :
                  TallyOf(yaku_info', n, y) =
                      TallyOf(yaku_info, n, y)
                      + Cardinality(CountedEntries(log.names, log.kyokus[kyoku_idx], n,
                                                   y))]_vars

\* two hands of one winner are collected, the first listing "Ura Dora(0)" and the
\* second "Ura Dora(10)": the winner's hidden-bonus tally is one, the other name two
C13_Witness ==
    /\ pc = "seat" /\ kyoku_idx = 3
    /\ \E w \in Seats :
        /\ log.kyokus[1] = EndHora(<<HoraDetail(w, <<Str_Tanyao, Str_Ura0>>)>>)
        /\ log.kyokus[2] = EndHora(<<HoraDetail(w, <<Str_Ura10, Str_Tanyao>>)>>)
        /\ TallyOf(yaku_info, log.names[w], Str_UraDora) = 1
        /\ TallyOf(yaku_info, log.names[w], <<"T">>) = 2

----------------------------------------------------------------------------
(* Deal-in events *)

\* the win event being handled is won by another seat from the replayed seat
DealtIn ==
    /\ Handled /\ CurrentEvent.type = "hora"
    /\ CurrentEvent.actor # player_id /\ CurrentEvent.target = player_id

\* the discard history of seat q as the state of the replayed seat keeps it
KawaOf(s, q) == s.kawa[Rel(s.player_id, q)]

\* C14: for every seat position of the replayed player, on a win event whose
\* target is this seat and whose winner is another seat, ippatsu_dealin_count
\* grows by one if and only if the most recent discard of the winner's own
\* discard history is a riichi-declaration discard and this seat is not in
\* accepted riichi; otherwise it does not change.
C14_IppatsuDealin_Claimed ==
    [][DealtIn =>
          Grows("ippatsu_dealin_count",
                IF LastIsRiichi(KawaOf(state, CurrentEvent.actor)) /\ ~state.riichi_accepted[0]
                    THEN 1 ELSE 0)]_vars

----------------------------------------------------------------------------
(* Discards into an opponent's ippatsu window *)

\* the event being handled is a discard of the replayed seat
SelfDiscard == Handled /\ CurrentEvent.type = "dahai" /\ CurrentEvent.actor = player_id

\* the opponents (by relative seat) in their ippatsu window for which the tile
\* discarded weighed more than nothing before the discard
WindowsDefied ==
    {r \in 1..3 :
        /\ LastIsRiichi(state.kawa[r])
        /\ CalculateDanger(StateAfter(log.events, player_id, ev_idx - 1))[r]
               [Deaka(CurrentEvent.pai)] # 0}

\* the value of counter f of player n, 0 for a player not yet met
CounterOf(pi, n, f) == IF n \in DOMAIN pi THEN pi[n][f] ELSE 0

\* C15: on a discard by the replayed seat, ippatsu_brazen_count of its player
\* grows by the number of opponents (0 to 3) whose most recent discard was a
\* riichi-declaration discard and whose danger weight for the discarded tile,
\* taken before the discard, is nonzero, if the seat is not in accepted riichi,
\* and by 0 if it is; no discard of another seat, no other event and no other
\* step of the run changes it, for any player.
C15_BrazenDiscards ==
    [][\A n \in DOMAIN players_info' :
          CounterOf(players_info', n, "ippatsu_brazen_count") =
              Add32(CounterOf(players_info, n, "ippatsu_brazen_count"),
                    IF SelfDiscard /\ n = CurrentName /\ ~state.riichi_accepted[0]
                        THEN Cardinality(WindowsDefied) ELSE 0)]_vars

\* the replayed seat has just discarded a tile dangerous to two opponents that
\* are both in their ippatsu window
C15_Witness ==
    /\ JustHandled
    /\ LastHandled.type = "dahai" /\ LastHandled.actor = player_id
    /\ ~state.riichi_accepted[0]
    /\ Cardinality({r \in 1..3 : LastIsRiichi(state.kawa[r])}) = 2
    /\ players_info[CurrentName].ippatsu_brazen_count = 2

----------------------------------------------------------------------------
(* Frame of a win event *)

\* the counters of the replayed seat's player that the step changes
ChangedFields == {f \in PlayerInfoFields : InfoNext[f] # InfoNow[f]}

\* C16: a win event changes at most one of agari_count and dealin_count of the
\* replayed seat, the winner's when the seat is the winner (also when it is named
\* as the target too), the target's otherwise; and a win event of which the seat
\* is neither the winner nor the target changes no counter except possibly
\* action_count.
C16_WinEventFrame ==
    [][(Handled /\ CurrentEvent.type = "hora") =>
          /\ ~({"agari_count", "dealin_count"} \subseteq ChangedFields)
          /\ CurrentEvent.actor = player_id => "dealin_count" \notin ChangedFields
          /\ (CurrentEvent.actor # player_id /\ CurrentEvent.target # player_id)
                 => ChangedFields \subseteq {"action_count"}]_vars

\* a tsumo win, winner and target the same seat, has just been handled in the
\* replay of that seat: it is a win and not a deal-in
C16_Witness ==
    /\ JustHandled
    /\ LastHandled.type = "hora"
    /\ LastHandled.actor = player_id /\ LastHandled.target = player_id
    /\ players_info[CurrentName].agari_count = 1
    /\ players_info[CurrentName].dealin_count = 0

----------------------------------------------------------------------------
(* Deal-in counters *)

\* the deal-in counters of every player nest
C17_Inv ==
    \A n \in DOMAIN players_info :
        /\ ULe(players_info[n].dama_mangan_dealin_count, players_info[n].dama_dealin_count)
        /\ ULe(players_info[n].dama_dealin_count, players_info[n].dealin_count)
        /\ ULe(players_info[n].ippatsu_dealin_count, players_info[n].dealin_count)

\* the winner of the win event being handled has not declared riichi and has
\* made no call
WinnerIsDama ==
    /\ ~state.riichi_declared[Rel(player_id, CurrentEvent.actor)]
    /\ state.fuuro_overview[Rel(player_id, CurrentEvent.actor)] = 0

\* the normalized delta, two thirds of the unscaled one for the dealer, is at most t
NormalizedAtMost(s, e, t) ==
    IF s.oya = 0 THEN 2 * UnscaledDelta(s, e) <= 3 * t ELSE UnscaledDelta(s, e) <= t

\* a step changes dama_dealin_count only for the player dealt in to a winner
\* that is dama, and dama_mangan_dealin_count only if the normalized delta is
\* -8000 or less as well
C17_Step ==
    \A n \in DOMAIN players_info' :
        /\ CounterOf(players_info', n, "dama_dealin_count")
               # CounterOf(players_info, n, "dama_dealin_count")
           => DealtIn /\ n = CurrentName /\ WinnerIsDama
        /\ CounterOf(players_info', n, "dama_mangan_dealin_count")
               # CounterOf(players_info, n, "dama_mangan_dealin_count")
           => /\ DealtIn /\ n = CurrentName /\ WinnerIsDama
              /\ NormalizedAtMost(state, CurrentEvent, -8000)

\* C17: after any sequence of replayed events, for every player,
\* dama_mangan_dealin_count <= dama_dealin_count <= dealin_count and
\* ippatsu_dealin_count <= dealin_count; dama_dealin_count is incremented only
\* when the winner has not declared riichi and has no calls, and
\* dama_mangan_dealin_count only when in addition the normalized delta is at
\* most -8000.
C17_DealinCountersNest == []C17_Inv /\ [][C17_Step]_vars

\* a seat that is not the dealer has just dealt 8000 into a dama hand that was
\* not in its ippatsu window
C17_Witness ==
    /\ JustHandled
    /\ LastHandled.type = "hora"
    /\ LastHandled.actor # player_id /\ LastHandled.target = player_id
    /\ state.oya # 0
    /\ LastHandled.deltas[player_id] = -8000
    /\ players_info[CurrentName].dama_mangan_dealin_count = 1
    /\ players_info[CurrentName].dama_dealin_count = 1
    /\ players_info[CurrentName].ippatsu_dealin_count = 0

----------------------------------------------------------------------------
(* Duration accounting *)

\* the seats of log l that bear the name n
SeatsNamed(l, n) == {p \in Seats : l.names[p] = n}

\* the seconds of the logs in `logs`, each counted once for a player named in it
RECURSIVE SecondsOncePerLog(_, _)
SecondsOncePerLog(logs, n) ==
    IF logs = <<>> THEN 0
    ELSE (IF Head(logs).duration.some /\ SeatsNamed(Head(logs), n) # {}
              THEN Head(logs).duration.secs ELSE 0)
         + SecondsOncePerLog(Tail(logs), n)

\* the seconds of the logs in `logs`, each counted once for every seat of it
\* that bears the name n
RECURSIVE SecondsPerSeat(_, _)
SecondsPerSeat(logs, n) ==
    IF logs = <<>> THEN 0
    ELSE (IF Head(logs).duration.some
              THEN Head(logs).duration.secs * Cardinality(SeatsNamed(Head(logs), n)) ELSE 0)
         + SecondsPerSeat(Tail(logs), n)

\* main is between two logs, or past the last one
BetweenLogs == pc \in {"read_dir", "write_yaku", "done"}

\* C18, as claimed: once the replays of a log are complete, each player's
\* seconds_played has grown by exactly its end_time - start_time, once for that
\* log, if the log has duration metadata, and not at all if it has none: between
\* logs seconds_played is the sum of the durations of the processed logs that
\* name the player.
C18_SecondsOncePerLog_Claimed ==
    BetweenLogs =>
        \A n \in DOMAIN players_info :
            players_info[n].seconds_played = SecondsOncePerLog(processed, n)

\* between logs seconds_played is the sum, over the processed logs that have
\* duration metadata, of the duration times the number of seats bearing the name
C18_Inv ==
    BetweenLogs =>
        \A n \in DOMAIN players_info :
            players_info[n].seconds_played = SecondsPerSeat(processed, n)

\* the event at ev_idx is matched to its end or to the bail on missing deltas
Matched == pc = "match" /\ pc' \notin {"match", "panic"}

\* seconds_played changes only where the replay of a seat begins, by the
\* duration of the log, whatever the number of its events; action_count changes
\* only where an event is matched, by one if the log has duration metadata and
\* the state reports that the seat can act; a log without metadata changes neither
C18_Step ==
    \A n \in DOMAIN players_info' :
        /\ CounterOf(players_info', n, "seconds_played") =
               Add32(CounterOf(players_info, n, "seconds_played"),
                     IF pc = "seat" /\ pc' # "read_dir" /\ n = CurrentName /\ duration.some
                         THEN duration.secs ELSE 0)
        /\ CounterOf(players_info', n, "action_count") =
               Add32(CounterOf(players_info, n, "action_count"),
                     IF Matched /\ n = CurrentName /\ duration.some /\ state.can_act
                         THEN 1 ELSE 0)

\* C18: for each log with duration metadata, a player's seconds_played grows by
\* exactly end_time - start_time once for every seat of that log that bears the
\* player's name, where the replay of the seat begins and independent of the
\* number of events; a log without duration metadata changes neither
\* seconds_played nor action_count of any player; with metadata, action_count
\* grows by one per event after which the state reports the seat can act.
C18_DurationAccounting == []C18_Inv /\ [][C18_Step]_vars

\* a log of 300 seconds with one name on two seats is complete: the player has
\* 600 seconds
C18_Witness ==
    /\ BetweenLogs
    /\ \E i \in 1..Len(processed) :
        /\ processed[i].duration = SomeDuration(300)
        /\ \E n \in DOMAIN players_info :
            /\ Cardinality(SeatsNamed(processed[i], n)) = 2
            /\ players_info[n].seconds_played = 600
            /\ players_info[n].action_count > 0

----------------------------------------------------------------------------
(* Hand-end events *)

\* the event being handled is the end of a hand
HandEnd == Handled /\ CurrentEvent.type = "end_kyoku"

\* the seat is ready and some completing tile of it is valued at 32000 or more
ReadyForYakuman(s) ==
    /\ s.rt_shanten = 0
    /\ \E i \in 1..Len(s.waits) : s.waits[i].valued /\ s.waits[i].ron >= 32000

\* C19: a hand-end event adds to yakuman_chance of the replayed seat's player
\* exactly one when the seat's shanten number is zero and at least one of its
\* completing tiles is valued at 32000 or more (a failed or empty valuation does
\* not reach it), however many tiles qualify, and nothing otherwise; it adds one
\* to open_count exactly when the seat's hand is not concealed; no other event
\* and no other step changes yakuman_chance or open_count of any player.
C19_HandEnd ==
    [][\A n \in DOMAIN players_info' :
          /\ CounterOf(players_info', n, "yakuman_chance") =
                 Add32(CounterOf(players_info, n, "yakuman_chance"),
                       IF HandEnd /\ n = CurrentName /\ ReadyForYakuman(state)
                           THEN 1 ELSE 0)
          /\ CounterOf(players_info', n, "open_count") =
                 Add32(CounterOf(players_info, n, "open_count"),
                       IF HandEnd /\ n = CurrentName /\ ~state.is_menzen
                           THEN 1 ELSE 0)]_vars

\* the replay of a seat has ended on the end of a hand in which the seat, with
\* an open hand, was ready on two tiles both valued at 32000: one chance counted
C19_Witness ==
    /\ pc = "seat" /\ player_id = state.player_id + 1
    /\ log.events # <<>> /\ log.events[Len(log.events)].type = "end_kyoku"
    /\ state.n_events = Len(log.events)
    /\ state.rt_shanten = 0 /\ ~state.is_menzen
    /\ Cardinality({i \in 1..Len(state.waits) :
                       state.waits[i].valued /\ state.waits[i].ron >= 32000}) = 2
    /\ players_info[log.names[state.player_id]].yakuman_chance = 1
    /\ players_info[log.names[state.player_id]].open_count = 1

----------------------------------------------------------------------------
(* Isolation of the replays *)

\* main is inside the replay of a seat
Replaying == pc \in {"query", "update", "match"}

\* the state of a replay is the fresh state of its seat with the events of its
\* log before the current one applied once each, in order, and nothing else
C20_Inv ==
    /\ Replaying =>
        /\ player_id \in Seats
        /\ ev_idx \in 1..Len(log.events)
        /\ state = StateAfter(log.events, player_id, IF pc = "match" THEN ev_idx ELSE ev_idx - 1)
    /\ pc = "seat" => player_id \in 0..4 /\ (player_id > 0 => ev_idx = Len(log.events) + 1)

\* the steps of the replays: a replay starts from the fresh state of its seat at
\* the first event, goes on by one event at a time, each applied by one update,
\* and the next seat starts only when the last event is handled; the log is
\* complete after the fourth seat; a step changes the counters of no player but
\* the one whose name the seat being replayed bears
C20_Step ==
    /\ state' # state =>
        \/ pc = "seat" /\ state' = NewState(player_id) /\ ev_idx' = 1
        \/ pc = "update" /\ state' = StateUpdate(state, log.events[ev_idx])
    /\ ev_idx' # ev_idx =>
        \/ pc = "seat" /\ ev_idx' = 1
        \/ pc = "match" /\ ev_idx' = ev_idx + 1
    /\ (pc = "query" => pc' = "update") /\ (pc = "update" => pc' \in {"match", "error"})
    /\ player_id' # player_id =>
        \/ pc = "read_dir" /\ player_id' = 0
        \/ pc \in {"seat", "match"} /\ player_id' = player_id + 1
             /\ ev_idx' = Len(log.events) + 1
    /\ processed' # processed =>
        pc = "seat" /\ player_id = 4 /\ processed' = Append(processed, log)
    /\ \A n \in DOMAIN players_info' :
        (n \notin DOMAIN players_info \/ players_info'[n] # players_info[n])
            => pc \in {"seat", "match"} /\ player_id \in Seats /\ n = log.names[player_id]

\* C20: for each log and seat the simulated state starts fresh, every event of
\* the log is applied to it exactly once and in order, the four replays of a log
\* run one after another, the counters of a player are changed only by the
\* replays of seats bearing that player's name, and no state carries over from
\* one seat's replay or one log to the next.
C20_ReplayIsolation == []C20_Inv /\ [][C20_Step]_vars

\* the last seat of the second log of a run is being replayed, past its first
\* event, after replays that left other states behind
C20_Witness ==
    /\ pc = "match" /\ player_id = 3 /\ ev_idx > 1
    /\ Len(processed) = 1 /\ processed[1].events # <<>>
    /\ state = StateAfter(log.events, 3, ev_idx)
    /\ state # StateAfter(log.events, 2, ev_idx)
    /\ state # NewState(3)

====
